---- MODULE Spec2Model ----
(***************************************************************************)
(* Model of the price-refresh orchestration of yprice                       *)
(* (src/src/services/priceService.ts, class PriceService).                  *)
(*                                                                          *)
(* Encoding of addresses.  A token address is a hex string; the model       *)
(* writes it as an integer.  A positive integer is an all-lowercase         *)
(* spelling, the negative integer -a is a mixed-case spelling of the same   *)
(* address a, and 0 is the zero address (its digits have no case).          *)
(* toLowerCase is therefore the absolute value.  Ordinary discovered tokens *)
(* carry their position in the discovery list as address; the wrapped       *)
(* native addresses of the registry are the numbers of wethAddresses.       *)
(***************************************************************************)
EXTENDS Integers, Sequences, FiniteSets, TLC

VARIABLES
    tokenSource,    \* what discoverAllTokens resolves to: chainId -> token list descriptor
    passes,         \* one record per unfinished call of fetchDiscoveredTokens, in call order
    progress,       \* the Progress Tracker's keyed entries
    timers,         \* every setInterval timer created, with its interval and liveness
    fetchInterval,  \* PriceService.fetchInterval: an index into timers, or 0 for null
    tick,           \* the most recent timer callback: its timer and the Date.now() it read
    tickLog         \* history kept for SpecClock: when the timer was created and what
                    \* every callback since read from the clock and passed on

vars == <<tokenSource, passes, progress, timers, fetchInterval, tick, tickLog>>

-----------------------------------------------------------------------------
(* Program constants *)

batchSize == 500

groupSize == 3

rediscoveryWindowMs == 3600000

defaultIntervalMs == 60000

zeroAddress == 0

RegisteredChains == {1, 10, 42161, 8453}

wethAddresses(chainId) ==
    CASE chainId = 1     -> 9001
      [] chainId = 10    -> 9002
      [] chainId = 42161 -> 9003
      [] chainId = 8453  -> 9002

-----------------------------------------------------------------------------
(* Bounds of the model *)

\* passes in flight at once
MaxPasses == 1

MaxTimers == 2

\* number of full batches in the longest discovered list (one more token follows them)
MaxFullBatches == 3

\* rediscovery windows a timer of SpecClock runs through after the one it was created in
MaxWindows == 3

\* timer callbacks of one run of SpecClock that fire a millisecond early or late
MaxDrifts == 2

-----------------------------------------------------------------------------
(* Generic helpers *)

Min(a, b) == IF a < b THEN a ELSE b

Max(a, b) == IF a > b THEN a ELSE b

Range(f) == {f[x] : x \in DOMAIN f}

EmptyMap == [x \in {} |-> 0]

RECURSIVE SetToSortedSeq(_)
SetToSortedSeq(S) ==
    IF S = {} THEN <<>>
    ELSE LET m == CHOOSE x \in S : \A y \in S : x <= y
         IN  <<m>> \o SetToSortedSeq(S \ {m})

RECURSIVE SumOver(_, _)
SumOver(f, S) ==
    IF S = {} THEN 0
    ELSE LET x == CHOOSE y \in S : TRUE
         IN  f[x] + SumOver(f, S \ {x})

\* String.prototype.toLowerCase on an encoded address
toLowerCase(address) == IF address < 0 THEN 0 - address ELSE address

\* a faulty split whose slices hold one element more than size
chunkOneMore(array, size) ==
    [j \in 1..((Len(array) + size) \div (size + 1)) |->
        SubSeq(array, (j - 1) * (size + 1) + 1, Min(j * (size + 1), Len(array)))]

\* lodash chunk(array, size): consecutive slices of length size, the last one shorter
chunk(array, size) ==
    [j \in 1..((Len(array) + size - 1) \div size) |->
        SubSeq(array, (j - 1) * size + 1, Min(j * size, Len(array)))]

-----------------------------------------------------------------------------
(* Token lists.  A descriptor [n, special] stands for the list of n tokens   *)
(* whose i-th address is special[i] when i is in DOMAIN special, else i.     *)

AddressAt(d, i) == IF i \in DOMAIN d.special THEN d.special[i] ELSE i

TokenList(chainId, d) ==
    [i \in 1..d.n |-> [address |-> AddressAt(d, i), symbol |-> "TKN", chainId |-> chainId]]

Plain(n) == [n |-> n, special |-> EmptyMap]

\* the zero address, a mixed-case spelling of chain 1's wrapped native token, one other token
WithNative == [n |-> 3, special |-> (1 :> 0) @@ (2 :> (0 - wethAddresses(1)))]

\* token sets of the periodic service: every list fits one batch
ServiceSources == { (137 :> Plain(1)) }

\* token sets of a one-shot refresh
RefreshSources ==
    { EmptyMap,
      (137 :> Plain(MaxFullBatches * batchSize + 1)),
      (1 :> Plain(batchSize + 1)),
      (1 :> WithNative) @@ (137 :> Plain(0)),
      (1 :> [n |-> 2, special |-> (2 :> wethAddresses(1))]),
      (137 :> Plain(2 * batchSize)),
      (10 :> Plain(1)) @@ (137 :> Plain(2 * batchSize + 200)) }

Sources == ServiceSources \cup RefreshSources

Chains == UNION {DOMAIN source : source \in Sources}

Descriptors == UNION {Range(source) : source \in Sources}


-----------------------------------------------------------------------------
(* fetchAndStorePrices, lines 13-64 *)

\* a faulty list whose presence test compares the addresses as spelled
tokensWithNativeCaseSensitive(chainId, tokens) ==
    IF chainId \in RegisteredChains
          /\ ~ \E i \in 1..Len(tokens) : tokens[i].address = wethAddresses(chainId)
    THEN Append(tokens, [address |-> wethAddresses(chainId), symbol |-> "WETH",
                         chainId |-> chainId])
    ELSE tokens

\* lines 15-34: the token list handed to fetchPrices
tokensWithNative(chainId, tokens) ==
    IF chainId \in RegisteredChains
          /\ ~ \E i \in 1..Len(tokens) :
                   toLowerCase(tokens[i].address) = wethAddresses(chainId)
    THEN Append(tokens, [address |-> wethAddresses(chainId), symbol |-> "WETH",
                         chainId |-> chainId])
    ELSE tokens

\* Map.prototype.set: replaces the value of an existing key, adds a new key
MapSet(m, k, v) == [x \in DOMAIN m \cup {k} |-> IF x = k THEN v ELSE m[x]]

\* a faulty alias: the wrapped-native record is copied under the zero key with
\* its address left as it was
aliasNativeKeepsAddress(chainId, prices) ==
    IF chainId \in RegisteredChains /\ wethAddresses(chainId) \in DOMAIN prices
    THEN MapSet(prices, zeroAddress, prices[wethAddresses(chainId)])
    ELSE prices

\* lines 39-55: the price map after the native alias has been applied
aliasNative(chainId, prices) ==
    IF chainId \in RegisteredChains /\ wethAddresses(chainId) \in DOMAIN prices
    THEN MapSet(prices, zeroAddress,
                [prices[wethAddresses(chainId)] EXCEPT !.address = zeroAddress])
    ELSE prices

\* line 57: Array.from(prices.values()), as the collection of its records
pricesArray(prices) == Range(prices)

\* a faulty guard that lets an empty array through to storePrices
storeGuardAlways(array) == TRUE

\* line 58: pricesArray.length > 0
storeGuard(array) == array # {}

\* a faulty catch block that rethrows
fetchAndStorePricesRethrows == "rejected"

\* lines 61-63: the catch block logs and returns, so the returned promise fulfils
fetchAndStorePricesCatch == "fulfilled"

\* the promise fetchAndStorePrices returned, from the status of its batch
BatchPromise(status) ==
    CASE status \in {"pending", "fetching"}          -> "pending"
      [] status \in {"stored", "skipped"}            -> "fulfilled"
      [] status \in {"fetchFailed", "storeFailed"}   -> fetchAndStorePricesCatch

\* a faulty join that stops waiting once one promise has fulfilled
PromiseAny(states) ==
    IF \E i \in DOMAIN states : states[i] = "fulfilled" THEN "fulfilled"
    ELSE IF \A i \in DOMAIN states : states[i] = "rejected" THEN "rejected"
    ELSE "pending"

\* Promise.all over promise states: rejects with the first rejection, fulfils
\* when every promise has fulfilled (lines 91 and 110)
PromiseAll(states) ==
    IF \E i \in DOMAIN states : states[i] = "rejected" THEN "rejected"
    ELSE IF \A i \in DOMAIN states : states[i] = "fulfilled" THEN "fulfilled"
    ELSE "pending"

-----------------------------------------------------------------------------
(* The Price Fetcher, an external collaborator: what fetchPrices may resolve *)
(* to for a list of requested tokens.  The map is keyed by lowercase        *)
(* address, holds records only for requested tokens, and each record's      *)
(* address is its key.  The model lets it price the zero address, the       *)
(* wrapped native token and the first other token of the request.           *)

Prices == {1, 2}

IsSpecial(a) == a = zeroAddress \/ a \in {wethAddresses(c) : c \in RegisteredChains}

Quotable(requested) ==
    LET lowered == {toLowerCase(requested[i].address) : i \in 1..Len(requested)}
        others  == {a \in lowered : ~IsSpecial(a)}
    IN  {a \in lowered : IsSpecial(a)}
          \cup (IF others = {} THEN {} ELSE {CHOOSE a \in others : \A b \in others : a <= b})

FetchResults(chainId, requested) ==
    LET Q == Quotable(requested)
    IN  UNION { { [a \in S |-> [address |-> a, price |-> q[a], chainId |-> chainId]] :
                    q \in {f \in [S -> Prices] : \A a \in S : ~IsSpecial(a) => f[a] = 1} }
                : S \in SUBSET Q }

-----------------------------------------------------------------------------
(* The Progress Tracker (utils/progressTracker), modelled from its contract *)

processingKey == <<"processing-all", 0>>

chainKey(chainId) == <<"chain", chainId>>

NoEntry == [status |-> "absent", total |-> 0, processed |-> 0, errors |-> 0]

trackerStart(pr, key, total) ==
    [pr EXCEPT ![key] = [status |-> "active", total |-> total, processed |-> 0,
                         errors |-> 0]]

trackerUpdate(pr, key, value) ==
    IF pr[key].status = "active"
    THEN [pr EXCEPT ![key].processed = Max(@, value)]
    ELSE pr

trackerIncrement(pr, key) ==
    IF pr[key].status = "active"
    THEN [pr EXCEPT ![key].processed = @ + 1]
    ELSE pr

trackerComplete(pr, key) ==
    IF pr[key].status = "active"
    THEN [pr EXCEPT ![key].status = "completed"]
    ELSE pr

getStats(pr) ==
    [errors    |-> SumOver([k \in DOMAIN pr |-> pr[k].errors], DOMAIN pr),
     processed |-> SumOver([k \in DOMAIN pr |-> pr[k].processed], DOMAIN pr)]

-----------------------------------------------------------------------------
(* fetchDiscoveredTokens, lines 66-118 *)

ProgressKeys == {processingKey} \cup {chainKey(c) : c \in Chains}

\* lines 83-84 and 89: the batches of a token list and their groups, by batch index
\* a faulty split whose every batch starts at the first token
BatchesFromStart(chainId, d) ==
    LET tokens == TokenList(chainId, d)
    IN  [j \in 1..((Len(tokens) + batchSize - 1) \div batchSize) |->
            SubSeq(tokens, 1, Min(j * batchSize, Len(tokens)))]

\* evaluated once for every token list of the model
TokenTable == [c \in Chains |-> [d \in Descriptors |-> TokenList(c, d)]]

Tokens(chainId, d) == TokenTable[chainId][d]

BatchTable ==
    [c \in Chains |-> [d \in Descriptors |-> chunk(Tokens(c, d), batchSize)]]

Batches(chainId, d) == BatchTable[chainId][d]

\* a faulty grouping that puts every batch of the list into one group
batchGroupsUngrouped(chainId, d) ==
    chunk([b \in 1..Len(Batches(chainId, d)) |-> b], Max(1, Len(Batches(chainId, d))))

\* a faulty grouping into groups of two batches
batchGroupsOfTwo(chainId, d) ==
    chunk([b \in 1..Len(Batches(chainId, d)) |-> b], 2)

\* the groups hold the indices of their batches
batchGroups(chainId, d) ==
    chunk([b \in 1..Len(Batches(chainId, d)) |-> b], groupSize)

GroupMembers(chainId, d, g) == Range(batchGroups(chainId, d)[g])

NoBatch == [status |-> "pending", fetched |-> EmptyMap, stored |-> {}]

\* a faulty dispatch that calls fetchAndStorePrices for the first batch of the
\* group only
DispatchFirstOnly(batches, members) ==
    [b \in DOMAIN batches |->
        IF b \in members /\ \A m \in members : b <= m
        THEN [batches[b] EXCEPT !.status = "fetching"] ELSE batches[b]]

\* line 92: every batch of the group enters fetchAndStorePrices and runs up to
\* its await of fetchPrices
Dispatch(batches, members) ==
    [b \in DOMAIN batches |->
        IF b \in members THEN [batches[b] EXCEPT !.status = "fetching"] ELSE batches[b]]

\* a faulty progress count that is not capped at the number of tokens
processedUncapped(chainId, d, g) ==
    (g - 1) * groupSize * batchSize + Len(batchGroups(chainId, d)[g]) * batchSize

\* lines 95-98
processedAfter(chainId, d, g) ==
    Min((g - 1) * groupSize * batchSize + Len(batchGroups(chainId, d)[g]) * batchSize,
        Len(Tokens(chainId, d)))

\* a faulty task whose empty-list branch returns without the increment
StartTaskSilentOnEmpty(chainId, d) ==
    IF Len(Tokens(chainId, d)) = 0
    THEN [pc |-> "done", group |-> 0, batches |-> <<>>, log |-> <<>>]
    ELSE [pc |-> "running", group |-> 1,
          batches |-> Dispatch([b \in 1..Len(Batches(chainId, d)) |-> NoBatch],
                               GroupMembers(chainId, d, 1)),
          log |-> << <<"start", Len(Tokens(chainId, d))>> >>]

\* lines 78-93, for one entry of tokensByChain: the part of the per-chain task
\* that runs before its first await
StartTask(chainId, d) ==
    IF Len(Tokens(chainId, d)) = 0
    THEN [pc |-> "done", group |-> 0, batches |-> <<>>, log |-> << <<"increment", 0>> >>]
    ELSE [pc |-> "running", group |-> 1,
          batches |-> Dispatch([b \in 1..Len(Batches(chainId, d)) |-> NoBatch],
                               GroupMembers(chainId, d, 1)),
          log |-> << <<"start", Len(Tokens(chainId, d))>> >>]

RECURSIVE StartChains(_, _, _)
StartChains(pr, tokensByChain, order) ==
    IF order = <<>> THEN pr
    ELSE LET c == Head(order)
             tokens == Tokens(c, tokensByChain[c])
             next == IF Len(tokens) = 0
                     THEN trackerIncrement(pr, processingKey)
                     ELSE trackerStart(pr, chainKey(c), Len(tokens))
         IN  StartChains(next, tokensByChain, Tail(order))

\* a faulty catch block that rethrows
fetchDiscoveredTokensRethrows == "rejected"

\* lines 115-117: the catch block logs and returns, so the returned promise fulfils
fetchDiscoveredTokensCatch == "fulfilled"

NewPass(forceRefresh, trigger) ==
    [pc |-> "discovering", result |-> "pending", logged |-> "none",
     forceRefresh |-> forceRefresh, trigger |-> trigger,
     tokensByChain |-> EmptyMap, tasks |-> EmptyMap, log |-> <<>>,
     errorsBefore |-> getStats(progress).errors, statsErrors |-> 0]

\* line 68 resolves; lines 70-93 run up to the first await of every chain task
DiscoveryResolves(p) ==
    /\ passes[p].pc = "discovering"
    /\ LET tokensByChain == tokenSource
           order == SetToSortedSeq(DOMAIN tokensByChain)
       IN  /\ progress' = StartChains(
                  trackerStart(progress, processingKey, Cardinality(DOMAIN tokensByChain)),
                  tokensByChain, order)
           /\ passes' = [passes EXCEPT
                  ![p].pc = "processing",
                  ![p].tokensByChain = tokensByChain,
                  ![p].tasks = [c \in DOMAIN tokensByChain |-> StartTask(c, tokensByChain[c])],
                  ![p].log = <<"start">>]
    /\ UNCHANGED <<tokenSource, timers, fetchInterval, tick, tickLog>>

\* line 68 rejects; lines 115-117
DiscoveryFails(p) ==
    /\ passes[p].pc = "discovering"
    /\ passes' = [passes EXCEPT ![p].pc = "done", ![p].logged = "error",
                                ![p].result = fetchDiscoveredTokensCatch]
    /\ UNCHANGED <<tokenSource, progress, timers, fetchInterval, tick, tickLog>>

\* line 36 resolves for batch b of chain c; lines 37-60 (and 61-63 when
\* storePrices throws)
FetchResolves(p, c, b) ==
    /\ passes[p].pc = "processing"
    /\ c \in DOMAIN passes[p].tasks
    /\ b \in DOMAIN passes[p].tasks[c].batches
    /\ passes[p].tasks[c].batches[b].status = "fetching"
    /\ \E fetched \in FetchResults(c,
              tokensWithNative(c, Batches(c, passes[p].tokensByChain[c])[b])),
          storeThrows \in BOOLEAN :
          LET prices == aliasNative(c, fetched)
              array  == pricesArray(prices)
          IN  /\ ~storeGuard(array) => ~storeThrows
              /\ passes' = [passes EXCEPT ![p].tasks[c].batches[b] =
                     [status  |-> IF ~storeGuard(array) THEN "skipped"
                                  ELSE IF storeThrows THEN "storeFailed" ELSE "stored",
                      fetched |-> fetched,
                      stored  |-> array]]
    /\ UNCHANGED <<tokenSource, progress, timers, fetchInterval, tick, tickLog>>

\* line 36 rejects for batch b of chain c; lines 61-63
FetchRejects(p, c, b) ==
    /\ passes[p].pc = "processing"
    /\ c \in DOMAIN passes[p].tasks
    /\ b \in DOMAIN passes[p].tasks[c].batches
    /\ passes[p].tasks[c].batches[b].status = "fetching"
    /\ passes' = [passes EXCEPT ![p].tasks[c].batches[b].status = "fetchFailed"]
    /\ UNCHANGED <<tokenSource, progress, timers, fetchInterval, tick, tickLog>>

\* line 91 settles for the current group of chain c; lines 95-107
GroupSettles(p, c) ==
    /\ passes[p].pc = "processing"
    /\ c \in DOMAIN passes[p].tasks
    /\ passes[p].tasks[c].pc = "running"
    /\ LET task    == passes[p].tasks[c]
           d       == passes[p].tokensByChain[c]
           g       == task.group
           members == batchGroups(c, d)[g]
           joined  == PromiseAll([i \in DOMAIN members |->
                                     BatchPromise(task.batches[members[i]].status)])
           processed == processedAfter(c, d, g)
           last    == ~(g - 1 < Len(batchGroups(c, d)) - 1)
       IN  /\ joined # "pending"
           /\ IF joined = "rejected"
              THEN /\ passes' = [passes EXCEPT ![p].tasks[c].pc = "rejected"]
                   /\ UNCHANGED progress
              ELSE IF last
              THEN /\ passes' = [passes EXCEPT
                          ![p].tasks[c].pc = "done",
                          ![p].tasks[c].log = @ \o << <<"update", processed>>,
                                                     <<"complete", 0>>, <<"increment", 0>> >>]
                   /\ progress' = trackerIncrement(
                          trackerComplete(trackerUpdate(progress, chainKey(c), processed),
                                          chainKey(c)),
                          processingKey)
              ELSE /\ passes' = [passes EXCEPT
                          ![p].tasks[c].pc = "delay",
                          ![p].tasks[c].log = Append(@, <<"update", processed>>)]
                   /\ progress' = trackerUpdate(progress, chainKey(c), processed)
    /\ UNCHANGED <<tokenSource, timers, fetchInterval, tick, tickLog>>

\* line 102: the pacing delay elapses; the loop dispatches the next group (line 92)
DelayElapses(p, c) ==
    /\ passes[p].pc = "processing"
    /\ c \in DOMAIN passes[p].tasks
    /\ passes[p].tasks[c].pc = "delay"
    /\ LET d == passes[p].tokensByChain[c]
           g == passes[p].tasks[c].group + 1
       IN  passes' = [passes EXCEPT
               ![p].tasks[c].pc = "running",
               ![p].tasks[c].group = g,
               ![p].tasks[c].batches = Dispatch(@, GroupMembers(c, d, g))]
    /\ UNCHANGED <<tokenSource, progress, timers, fetchInterval, tick, tickLog>>

\* a faulty task whose promise fulfils without awaiting its batch loop
TaskPromiseUnawaited(task) ==
    IF task.pc = "rejected" THEN "rejected" ELSE "fulfilled"

\* the promise of a per-chain task of line 77
TaskPromise(task) ==
    CASE task.pc = "done"     -> "fulfilled"
      [] task.pc = "rejected" -> "rejected"
      [] OTHER                -> "pending"

\* line 110 settles; lines 111-114 (or 115-117)
ChainsSettle(p) ==
    /\ passes[p].pc = "processing"
    /\ LET order  == SetToSortedSeq(DOMAIN passes[p].tasks)
           joined == PromiseAll([i \in DOMAIN order |-> TaskPromise(passes[p].tasks[order[i]])])
       IN  /\ joined # "pending"
           /\ IF joined = "fulfilled"
              THEN /\ progress' = trackerComplete(progress, processingKey)
                   /\ passes' = [passes EXCEPT
                          ![p].pc = "done", ![p].logged = "summary",
                          ![p].result = "fulfilled",
                          ![p].log = @ \o <<"complete", "getStats">>,
                          ![p].statsErrors = getStats(progress').errors]
              ELSE /\ passes' = [passes EXCEPT
                          ![p].pc = "done", ![p].logged = "error",
                          ![p].result = fetchDiscoveredTokensCatch]
                   /\ UNCHANGED progress
    /\ UNCHANGED <<tokenSource, timers, fetchInterval, tick, tickLog>>

RemoveAt(seq, i) == SubSeq(seq, 1, i - 1) \o SubSeq(seq, i + 1, Len(seq))

\* lines 123-125 and 129-131: the promise of a finished pass settles at its
\* call site, whose handler only logs; nothing refers to the pass afterwards
CallSiteSettles(p) ==
    /\ passes[p].pc = "done"
    /\ passes' = RemoveAt(passes, p)
    /\ UNCHANGED <<tokenSource, progress, timers, fetchInterval, tick, tickLog>>

\* the steps of a pass whose token lists fit one batch group
PassStep ==
    \E p \in DOMAIN passes :
        \/ DiscoveryResolves(p)
        \/ DiscoveryFails(p)
        \/ ChainsSettle(p)
        \/ \E c \in DOMAIN passes[p].tasks :
              \/ GroupSettles(p, c)
              \/ \E b \in DOMAIN passes[p].tasks[c].batches :
                    \/ FetchRejects(p, c, b)
                    \/ FetchResolves(p, c, b)

PacingStep ==
    \E p \in DOMAIN passes : \E c \in DOMAIN passes[p].tasks : DelayElapses(p, c)

-----------------------------------------------------------------------------
(* The Periodic Scheduler, lines 120-141 *)

\* a faulty rule that compares the phase with the default interval
shouldRediscoverDefaultInterval(t, intervalMs) ==
    t % rediscoveryWindowMs < defaultIntervalMs

\* a faulty comparison that includes the boundary
shouldRediscoverInclusive(t, intervalMs) == t % rediscoveryWindowMs <= intervalMs

\* line 128
shouldRediscover(t, intervalMs) == t % rediscoveryWindowMs < intervalMs

Intervals == {defaultIntervalMs, 2 * defaultIntervalMs}

\* wall-clock readings a timer callback can see
ClockValues ==
    {defaultIntervalMs - 1, defaultIntervalMs, rediscoveryWindowMs,
     rediscoveryWindowMs + 2 * defaultIntervalMs}

\* lines 120-133
startPeriodicFetch(intervalMs) ==
    /\ Len(passes) < MaxPasses
    /\ Len(timers) < MaxTimers
    /\ passes' = Append(passes, NewPass(TRUE, "initial"))
    /\ timers' = Append(timers, [intervalMs |-> intervalMs, active |-> TRUE])
    /\ fetchInterval' = Len(timers) + 1
    /\ UNCHANGED <<tokenSource, progress, tick, tickLog>>

\* lines 135-141
stopPeriodicFetch ==
    /\ IF fetchInterval # 0
       THEN /\ timers' = [timers EXCEPT ![fetchInterval].active = FALSE]
            /\ fetchInterval' = 0
       ELSE UNCHANGED <<timers, fetchInterval>>
    /\ UNCHANGED <<tokenSource, passes, progress, tick, tickLog>>

\* lines 127-132: the callback of timer i runs at wall-clock time t
timerCallback(i, t) ==
    /\ timers[i].active
    /\ t >= tick.now
    /\ tick' = [timer |-> i, now |-> t]
    /\ passes' = Append(passes, NewPass(shouldRediscover(t, timers[i].intervalMs), "tick"))
    /\ UNCHANGED <<tokenSource, progress, timers, fetchInterval>>

\* a tick while fewer than MaxPasses passes are in flight
Tick(i, t) ==
    /\ Len(passes) < MaxPasses
    /\ timerCallback(i, t)
    /\ UNCHANGED tickLog

\* a tick while passes are in flight, one pass more than Tick allows
OverlappingTick(i, t) ==
    /\ Len(passes) <= MaxPasses
    /\ timerCallback(i, t)
    /\ UNCHANGED tickLog

\* intervals of SpecClock, none longer than the rediscovery window: one that does
\* not divide the window, half the window, the window
ClockIntervals ==
    {25 * defaultIntervalMs, rediscoveryWindowMs \div 2, rediscoveryWindowMs}

\* wall-clock times at which startPeriodicFetch creates the timer
StartTimes == {0, 1, defaultIntervalMs, rediscoveryWindowMs - 1}

Drifts == Cardinality({j \in DOMAIN tickLog : tickLog[j].jitter # 0})

\* lines 127-132: the callback of timer i runs intervalMs + jitter after the
\* previous callback (after the creation of the timer, for the first one)
ClockTick(i, jitter) ==
    LET t == tickLog[Len(tickLog)].at + timers[i].intervalMs + jitter
    IN  /\ t < (MaxWindows + 2) * rediscoveryWindowMs
        /\ jitter # 0 => Drifts < MaxDrifts
        /\ timerCallback(i, t)
        /\ tickLog' = Append(tickLog, [kind |-> "tick", at |-> t, jitter |-> jitter,
                                       forced |-> passes'[Len(passes')].forceRefresh])

ExactTick(i) == ClockTick(i, 0)

DriftingTick(i, jitter) == jitter # 0 /\ ClockTick(i, jitter)

\* a single direct call of fetchDiscoveredTokens, as a one-shot refresh makes it
Refresh(forceRefresh) ==
    /\ passes = <<>>
    /\ passes' = <<NewPass(forceRefresh, "direct")>>
    /\ UNCHANGED <<tokenSource, progress, timers, fetchInterval, tick, tickLog>>

-----------------------------------------------------------------------------
(* Specifications *)

InitService ==
    /\ passes = <<>>
    /\ progress = [k \in ProgressKeys |-> NoEntry]
    /\ timers = <<>>
    /\ fetchInterval = 0
    /\ tick = [timer |-> 0, now |-> 0]

InitCommon == InitService /\ tickLog = <<>>

Init == InitCommon /\ tokenSource \in ServiceSources

\* The periodic service.  Its token lists fit one batch group, so the pacing
\* delay of line 102 never starts and PacingStep is left out.
Next ==
    \/ \E intervalMs \in Intervals : startPeriodicFetch(intervalMs)
    \/ stopPeriodicFetch
    \/ \E i \in DOMAIN timers : \E t \in ClockValues : Tick(i, t)
    \/ PassStep
    \/ \E p \in DOMAIN passes : CallSiteSettles(p)

Spec == Init /\ [][Next]_vars

InitRefresh == InitCommon /\ tokenSource \in RefreshSources

\* One direct call of fetchDiscoveredTokens over the larger token sets; the
\* record of the finished pass is kept.
NextRefresh ==
    \/ \E forceRefresh \in BOOLEAN : Refresh(forceRefresh)
    \/ PassStep
    \/ PacingStep

SpecRefresh == InitRefresh /\ [][NextRefresh]_vars

\* token sets of the runs checked for termination
FairSources ==
    { (137 :> Plain(MaxFullBatches * batchSize + 1)),
      (1 :> WithNative) @@ (137 :> Plain(0)) }

InitFair == InitCommon /\ tokenSource \in FairSources

\* The service started once and stopped while its immediate pass runs, before
\* the first tick.
NextFair ==
    \/ \E intervalMs \in Intervals : passes = <<>> /\ startPeriodicFetch(intervalMs)
    \/ stopPeriodicFetch
    \/ PassStep
    \/ PacingStep

\* The service started once, with ticks that fire while earlier passes are
\* still in flight; the record of a finished pass is kept.
NextOverlap ==
    \/ \E intervalMs \in Intervals : passes = <<>> /\ startPeriodicFetch(intervalMs)
    \/ \E i \in DOMAIN timers : \E t \in ClockValues : OverlappingTick(i, t)
    \/ PassStep

SpecOverlap == Init /\ [][NextOverlap]_vars

InitClock ==
    /\ InitService
    /\ tokenSource \in ServiceSources
    /\ tickLog \in {<<[kind |-> "created", at |-> s, jitter |-> 0, forced |-> FALSE]>> :
                       s \in StartTimes}

\* The timer of one startPeriodicFetch call, created at tickLog[1].at, and its
\* callbacks; the passes they begin are left where they start.
NextClock ==
    \/ \E intervalMs \in ClockIntervals : timers = <<>> /\ startPeriodicFetch(intervalMs)
    \/ \E i \in DOMAIN timers : ExactTick(i)
    \/ \E i \in DOMAIN timers : \E jitter \in {0 - 1, 1} : DriftingTick(i, jitter)

SpecClock == InitClock /\ [][NextClock]_vars

\* The event loop runs every continuation that is ready: discovery, every
\* fetchPrices and storePrices call and every group join settle (PassStep), and
\* the 200 ms timer of line 102 fires (PacingStep).
SpecFair == InitFair /\ [][NextFair]_vars /\ WF_vars(PassStep) /\ WF_vars(PacingStep)

-----------------------------------------------------------------------------
(* Properties of one pass, checked under SpecRefresh *)

Settled == {"stored", "skipped", "fetchFailed", "storeFailed"}

Failed == {"fetchFailed", "storeFailed"}

StoreCalled == {"stored", "storeFailed"}

TasksOf(p) == DOMAIN passes[p].tasks

UpdatesOf(task) ==
    LET idx == {i \in DOMAIN task.log : task.log[i][1] = "update"}
    IN  [k \in 1..Cardinality(idx) |->
            task.log[CHOOSE i \in idx : Cardinality({j \in idx : j <= i}) = k][2]]

AddressesStored(batch) == {r.address : r \in batch.stored}

\* C1: within one pass and one network, a batch of group g+1 has been dispatched
\* only if every batch of group g has settled, by success or by failure.
C1_GroupsInSequence ==
    \A p \in DOMAIN passes : \A c \in TasksOf(p) :
        LET task   == passes[p].tasks[c]
            groups == batchGroups(c, passes[p].tokensByChain[c])
        IN  \A g \in 1..(Len(groups) - 1) :
                (\E b \in Range(groups[g + 1]) : task.batches[b].status # "pending")
                    => \A b \in Range(groups[g]) : task.batches[b].status \in Settled

C1_Witness ==
    \E p \in DOMAIN passes : \E c \in TasksOf(p) :
        LET task == passes[p].tasks[c]
        IN  /\ Len(task.batches) > groupSize
            /\ task.batches[groupSize + 1].status = "fetching"
            /\ task.batches[1].status = "fetchFailed"
            /\ task.batches[2].status = "stored"

\* C2: a batch whose fetch or store fails leaves its network task running; once
\* the pass has ended every batch of that network has been dispatched and settled
\* and complete was called for the network's progress key.
C2_FailureDoesNotAbort ==
    \A p \in DOMAIN passes : \A c \in TasksOf(p) :
        LET task == passes[p].tasks[c]
        IN  (\E b \in DOMAIN task.batches : task.batches[b].status \in Failed)
                => /\ task.pc # "rejected"
                   /\ passes[p].pc = "done"
                          => /\ \A b \in DOMAIN task.batches :
                                    task.batches[b].status \in Settled
                             /\ <<"complete", 0>> \in Range(task.log)
                             /\ passes[p].logged = "summary"

C2_Witness ==
    \E p \in DOMAIN passes : \E c \in TasksOf(p) :
        LET task == passes[p].tasks[c]
        IN  /\ passes[p].pc = "done"
            /\ Len(task.batches) > groupSize
            /\ task.batches[1].status = "fetchFailed"
            /\ task.batches[2].status = "storeFailed"
            /\ task.batches[3].status = "stored"
            /\ task.batches[groupSize + 1].status = "stored"

FailedFetches(p) ==
    {cb \in UNION {{<<c, b>> : b \in DOMAIN passes[p].tasks[c].batches} : c \in TasksOf(p)} :
        passes[p].tasks[cb[1]].batches[cb[2]].status = "fetchFailed"}

\* C3: when a pass ends, the errors total of getStats() has grown, since the pass
\* began, by the number of its batches whose fetch failed.
C3_ErrorsCountFailedFetches ==
    \A p \in DOMAIN passes :
        (passes[p].pc = "done" /\ passes[p].logged = "summary")
            => passes[p].statsErrors - passes[p].errorsBefore
                   = Cardinality(FailedFetches(p))

\* C4: the values a network task passes to progressTracker.update never decrease,
\* and the value passed after the last group is the number of the network's tokens.
C4_ProgressMonotoneToN ==
    \A p \in DOMAIN passes : \A c \in TasksOf(p) :
        LET task    == passes[p].tasks[c]
            updates == UpdatesOf(task)
        IN  /\ \A i \in 1..(Len(updates) - 1) : updates[i] <= updates[i + 1]
            /\ (task.pc = "done" /\ passes[p].tokensByChain[c].n > 0)
                   => /\ Len(updates) > 0
                      /\ updates[Len(updates)] = passes[p].tokensByChain[c].n

C4_Witness ==
    \E p \in DOMAIN passes : \E c \in TasksOf(p) :
        LET task == passes[p].tasks[c]
        IN  /\ task.pc = "done"
            /\ Len(UpdatesOf(task)) = 2
            /\ UpdatesOf(task)[1] < UpdatesOf(task)[2]
            /\ passes[p].tokensByChain[c].n % batchSize # 0

\* C5 as stated: any two batches of one network in one pass pass disjoint sets of
\* addresses to storePrices.
C5_StoredSetsDisjoint ==
    \A p \in DOMAIN passes : \A c \in TasksOf(p) :
        LET batches == passes[p].tasks[c].batches
        IN  \A b1, b2 \in DOMAIN batches :
                b1 # b2 => AddressesStored(batches[b1]) \cap AddressesStored(batches[b2]) = {}

\* C5 amended: any two batches of one network in one pass pass sets of addresses
\* to storePrices that share at most the wrapped-native address and the zero
\* address of a registered network, and nothing on an unregistered network.
C5_StoredSetsShareOnlyNative ==
    \A p \in DOMAIN passes : \A c \in TasksOf(p) :
        LET batches == passes[p].tasks[c].batches
            shared  == IF c \in {1, 10, 42161, 8453}
                       THEN {wethAddresses(c), 0} ELSE {}
        IN  \A b1, b2 \in DOMAIN batches :
                b1 # b2 => (AddressesStored(batches[b1]) \cap AddressesStored(batches[b2]))
                               \subseteq shared

C5_Witness ==
    \E p \in DOMAIN passes : \E c \in TasksOf(p) :
        LET batches == passes[p].tasks[c].batches
        IN  /\ Len(batches) >= 2
            /\ batches[1].status = "stored"
            /\ batches[2].status = "stored"
            /\ AddressesStored(batches[1]) \cap AddressesStored(batches[2])
                   = {wethAddresses(c), 0}
            /\ AddressesStored(batches[1]) # AddressesStored(batches[2])

\* C6: on a registered network, a batch whose fetched map holds a record for the
\* wrapped-native address W passes storePrices a record for the zero address
\* with W's price; a batch whose fetched map holds no record for W passes
\* exactly the fetched records.
C6_NativeAlias ==
    \A p \in DOMAIN passes : \A c \in TasksOf(p) \cap {1, 10, 42161, 8453} :
        \A b \in DOMAIN passes[p].tasks[c].batches :
            LET batch == passes[p].tasks[c].batches[b]
                W     == wethAddresses(c)
            IN  batch.status \in {"stored", "storeFailed", "skipped"}
                    => IF W \in DOMAIN batch.fetched
                       THEN /\ batch.status \in StoreCalled
                            /\ \E r \in batch.stored :
                                   r.address = 0 /\ r.price = batch.fetched[W].price
                            /\ \A r \in batch.stored : r.address = 0 =>
                                   r.price = batch.fetched[W].price
                       ELSE batch.stored = Range(batch.fetched)

C6_Witness ==
    \E p \in DOMAIN passes : \E c \in TasksOf(p) \cap {1, 10, 42161, 8453} :
        \E b \in DOMAIN passes[p].tasks[c].batches :
            LET batch == passes[p].tasks[c].batches[b]
            IN  /\ batch.status = "stored"
                /\ wethAddresses(c) \in DOMAIN batch.fetched
                /\ 0 \notin DOMAIN batch.fetched
                /\ batch.fetched[wethAddresses(c)].price = 2

\* C7: a record the fetched map holds for the zero address is passed to
\* storePrices unchanged.
C7_ZeroRecordKept ==
    \A p \in DOMAIN passes : \A c \in TasksOf(p) :
        \A b \in DOMAIN passes[p].tasks[c].batches :
            LET batch == passes[p].tasks[c].batches[b]
            IN  (batch.status \in StoreCalled /\ 0 \in DOMAIN batch.fetched)
                    => batch.fetched[0] \in batch.stored

-----------------------------------------------------------------------------
(* Properties of the scheduler, checked under Spec *)

PassAdded == Len(passes') = Len(passes) + 1

NewestPass == passes'[Len(passes')]

\* C8: the forceRefresh flag of a pass begun by the scheduler is TRUE for the
\* immediate pass of startPeriodicFetch(intervalMs), and for the tick of a timer at
\* wall-clock time t it is TRUE exactly when (t mod 3600000) < intervalMs.
C8_ForceRefreshRule ==
    [][PassAdded =>
          IF NewestPass.trigger = "initial"
          THEN NewestPass.forceRefresh = TRUE
          ELSE /\ NewestPass.trigger = "tick"
               /\ NewestPass.forceRefresh
                      <=> (tick'.now % 3600000 < timers[tick'.timer].intervalMs)]_vars

C8_Witness ==
    \E p \in DOMAIN passes :
        /\ passes[p].trigger = "tick"
        /\ ~passes[p].forceRefresh
        /\ passes[p].pc = "discovering"
        /\ tick.now = 60000
        /\ timers[tick.timer].intervalMs = 60000

\* C9: while stopPeriodicFetch was the last scheduler call to return (the timer
\* handle is null and a timer was created before), no pass is begun by a tick.
C9_NoPassAfterStop ==
    [][(fetchInterval = 0 /\ timers # <<>> /\ PassAdded) => NewestPass.trigger # "tick"]_vars

FailedDiscovery(pass) ==
    pass.pc = "done" /\ pass.tokensByChain = EmptyMap /\ pass.tasks = EmptyMap
        /\ pass.logged = "error"

\* C10: the step in which a pass's discovery fails makes no Progress Tracker
\* call, dispatches no batch, fulfils the promise of fetchDiscoveredTokens and
\* leaves every timer and the timer handle as they were; and a live timer can
\* tick and begin a new pass whatever passes have failed.
C10_DiscoveryFailureContained ==
    /\ [][\A p \in DOMAIN passes :
             (/\ passes[p].pc = "discovering"
              /\ Len(passes') = Len(passes)
              /\ passes'[p].pc = "done")
                 => /\ FailedDiscovery(passes'[p])
                    /\ passes'[p].log = <<>>
                    /\ passes'[p].result = "fulfilled"
                    /\ progress' = progress
                    /\ timers' = timers
                    /\ fetchInterval' = fetchInterval]_vars
    /\ [](\A p \in DOMAIN passes :
             passes[p].pc = "done" /\ passes[p].tasks = EmptyMap
                 => /\ passes[p].result = "fulfilled"
                    /\ passes[p].log = <<>>)
    /\ [][\A i \in DOMAIN timers :
             (timers[i].active /\ tick'.timer = i /\ tick' # tick)
                 => /\ PassAdded
                    /\ NewestPass.pc = "discovering"]_vars

C10_Witness ==
    \E p \in DOMAIN passes :
        /\ FailedDiscovery(passes[p])
        /\ passes[p].trigger = "tick"
        /\ passes[p].result = "fulfilled"
        /\ fetchInterval # 0
        /\ timers[fetchInterval].active
        /\ progress[processingKey].status = "completed"

-----------------------------------------------------------------------------
(* Termination of a pass, checked under SpecFair *)

\* C11: a pass whose discovery has succeeded eventually completes the
\* "processing-all" entry and logs its summary, whichever of its batches fail
\* and whether or not stopPeriodicFetch is called meanwhile.
C11_PassTerminates ==
    \A p \in 1..MaxPasses :
        (p \in DOMAIN passes /\ passes[p].pc = "processing")
            ~> (/\ p \in DOMAIN passes
                /\ passes[p].pc = "done"
                /\ passes[p].logged = "summary"
                /\ passes[p].log = <<"start", "complete", "getStats">>)

C11_Witness ==
    /\ passes # <<>>
    /\ passes[1].pc = "done"
    /\ passes[1].logged = "summary"
    /\ fetchInterval = 0
    /\ ~timers[1].active
    /\ \E c \in TasksOf(1) :
           LET batches == passes[1].tasks[c].batches
           IN  /\ Len(batches) > groupSize
               /\ batches[1].status = "fetchFailed"
               /\ batches[groupSize + 1].status = "storeFailed"

-----------------------------------------------------------------------------
(* Tracker calls and batching of one pass, checked under SpecRefresh *)

CallsOf(task, name) == {i \in DOMAIN task.log : task.log[i][1] = name}

IncrementsOf(p) ==
    SumOver([c \in TasksOf(p) |-> Cardinality(CallsOf(passes[p].tasks[c], "increment"))],
            TasksOf(p))

\* C12: a pass over K networks starts "processing-all" with total K; every
\* network task, of an empty or a non-empty list, has issued one increment of
\* "processing-all" when it has finished and none before, so K increments have
\* been issued when "processing-all" is completed; a network with an empty list
\* has no per-network tracker entry and no batch, hence no fetch and no store.
C12_OneIncrementPerNetwork ==
    \A p \in DOMAIN passes :
        LET pass == passes[p]
            K    == Cardinality(DOMAIN pass.tokensByChain)
        IN  pass.log # <<>> =>
              /\ progress[processingKey].total = K
              /\ \A c \in TasksOf(p) :
                     /\ Cardinality(CallsOf(pass.tasks[c], "increment"))
                            = IF pass.tasks[c].pc = "done" THEN 1 ELSE 0
                     /\ pass.tokensByChain[c].n = 0 =>
                            /\ pass.tasks[c].log = << <<"increment", 0>> >>
                            /\ pass.tasks[c].batches = <<>>
                            /\ progress[chainKey(c)] = NoEntry
              /\ "complete" \in Range(pass.log) =>
                     /\ IncrementsOf(p) = K
                     /\ progress[processingKey].processed = K

C12_Witness ==
    \E p \in DOMAIN passes :
        /\ passes[p].log = <<"start", "complete", "getStats">>
        /\ Cardinality(TasksOf(p)) = 2
        /\ \E c \in TasksOf(p) : passes[p].tokensByChain[c].n = 0
        /\ \E c \in TasksOf(p) :
               /\ passes[p].tokensByChain[c].n > 0
               /\ passes[p].tasks[c].batches[1].status = "fetchFailed"
        /\ IncrementsOf(p) = 2
        /\ progress[processingKey].status = "completed"

InFlight(task) == {b \in DOMAIN task.batches : task.batches[b].status = "fetching"}

\* C13: in one pass, at most 3 fetchPrices calls for the batches of one network
\* are in flight at any moment.
C13_AtMostThreeInFlight ==
    \A p \in DOMAIN passes : \A c \in TasksOf(p) :
        Cardinality(InFlight(passes[p].tasks[c])) <= 3

C13_Witness ==
    \E p \in DOMAIN passes : \E c \in TasksOf(p) :
        /\ Len(passes[p].tasks[c].batches) > 3
        /\ Cardinality(InFlight(passes[p].tasks[c])) = 3

\* the batches whose fetchPrices call has been made
Dispatched(p, c) ==
    {b \in DOMAIN passes[p].tasks[c].batches :
        passes[p].tasks[c].batches[b].status # "pending"}

\* positions of a token list that hold address W in any spelling
Matching(tokens, W) ==
    {i \in 1..Len(tokens) : tokens[i].address = W \/ tokens[i].address = 0 - W}

\* C14: the list handed to fetchPrices for a batch of a registered network holds
\* the wrapped-native address W: it is the batch followed by a synthetic WETH
\* token of address W when no token of the batch is W in any spelling, and the
\* batch itself otherwise, so the hand-over adds no second W; for an
\* unregistered network it is the batch itself.
C14_NativeRequested ==
    \A p \in DOMAIN passes : \A c \in TasksOf(p) : \A b \in Dispatched(p, c) :
        LET batch     == Batches(c, passes[p].tokensByChain[c])[b]
            requested == tokensWithNative(c, batch)
        IN  IF c \in {1, 10, 42161, 8453}
            THEN LET W == wethAddresses(c)
                 IN  /\ Matching(requested, W) # {}
                     /\ SubSeq(requested, 1, Len(batch)) = batch
                     /\ IF Matching(batch, W) = {}
                        THEN /\ Len(requested) = Len(batch) + 1
                             /\ requested[Len(requested)].address = W
                             /\ requested[Len(requested)].symbol = "WETH"
                             /\ requested[Len(requested)].chainId = c
                             /\ Cardinality(Matching(requested, W)) = 1
                        ELSE requested = batch
            ELSE requested = batch

C14_Witness ==
    \E p \in DOMAIN passes : \E c \in TasksOf(p) \cap {1, 10, 42161, 8453} :
        \E b \in Dispatched(p, c) :
            LET batch == Batches(c, passes[p].tokensByChain[c])[b]
            IN  /\ \E i \in 1..Len(batch) : batch[i].address = 0 - wethAddresses(c)
                /\ Len(tokensWithNative(c, batch)) = Len(batch)
                /\ wethAddresses(c) \in DOMAIN passes[p].tasks[c].batches[b].fetched

\* C15: the batches of a list of N tokens are consecutive slices of it in order;
\* there are ceil(N/500) of them, each of 500 tokens except possibly the last,
\* and none is empty.
C15_BatchesPartitionInOrder ==
    \A p \in DOMAIN passes : \A c \in TasksOf(p) :
        LET tokens  == Tokens(c, passes[p].tokensByChain[c])
            N       == Len(tokens)
            batches == Batches(c, passes[p].tokensByChain[c])
            count   == Len(passes[p].tasks[c].batches)
        IN  /\ count = Len(batches)
            /\ count * 500 >= N
            /\ (count - 1) * 500 < N \/ (N = 0 /\ count = 0)
            /\ \A j \in 1..count :
                   /\ Len(batches[j]) > 0
                   /\ j < count => Len(batches[j]) = 500
                   /\ Len(batches[j]) <= 500
                   /\ \A i \in 1..Len(batches[j]) :
                          batches[j][i] = tokens[(j - 1) * 500 + i]
            /\ SumOver([j \in 1..count |-> Len(batches[j])], 1..count) = N

C15_Witness ==
    \E p \in DOMAIN passes : \E c \in TasksOf(p) :
        LET batches == Batches(c, passes[p].tokensByChain[c])
        IN  /\ Len(passes[p].tasks[c].batches) = groupSize + 1
            /\ Len(batches[groupSize + 1]) = 1
            /\ batches[groupSize + 1][1].address = groupSize * batchSize + 1
            /\ passes[p].tasks[c].batches[groupSize + 1].status = "fetching"

\* C16: the batches of a network with N > 0 tokens form ceil(ceil(N/500)/3)
\* groups of at most 3 batches, and update has been called for the network once
\* for every group that has settled: once per group when the task has finished.
\* A network of 1200 tokens has 3 batches in 1 group and one update, of 1200.
C16_OneUpdatePerGroup ==
    \A p \in DOMAIN passes : \A c \in TasksOf(p) :
        LET task       == passes[p].tasks[c]
            N          == passes[p].tokensByChain[c].n
            numBatches == Len(task.batches)
            groups     == batchGroups(c, passes[p].tokensByChain[c])
            updates    == UpdatesOf(task)
        IN  N > 0 =>
              /\ numBatches = (N + 499) \div 500
              /\ Len(groups) = (numBatches + 2) \div 3
              /\ \A g \in DOMAIN groups : Len(groups[g]) \in 1..3
              /\ Len(updates) = IF task.pc = "running" THEN task.group - 1 ELSE task.group
              /\ task.pc = "done" => Len(updates) = Len(groups)
              /\ (N = 1200 /\ task.pc = "done") =>
                     /\ numBatches = 3
                     /\ Len(groups) = 1
                     /\ updates = <<1200>>

C16_Witness ==
    \E p \in DOMAIN passes : \E c \in TasksOf(p) :
        /\ passes[p].tokensByChain[c].n = 1200
        /\ passes[p].tasks[c].pc = "done"
        /\ UpdatesOf(passes[p].tasks[c]) = <<1200>>
        /\ Len(passes[p].tasks[c].batches) = 3

\* C17: in the calls a non-empty network's task has made, complete of its key
\* comes after every update and before the increment of "processing-all", and
\* the increment is never made without it; and the step that completes
\* "processing-all" is taken when every network task has finished, its
\* per-network complete and its increment made.
C17_TrackerCallOrder ==
    /\ [](\A p \in DOMAIN passes : \A c \in TasksOf(p) :
             LET task == passes[p].tasks[c]
             IN  passes[p].tokensByChain[c].n > 0 =>
                   /\ Cardinality(CallsOf(task, "complete")) <= 1
                   /\ \A i \in CallsOf(task, "complete") :
                          /\ \A u \in CallsOf(task, "update") : u < i
                          /\ CallsOf(task, "update") # {}
                          /\ \A k \in CallsOf(task, "increment") : i < k
                   /\ CallsOf(task, "increment") # {} => CallsOf(task, "complete") # {})
    /\ [][\A p \in DOMAIN passes :
             ("complete" \notin Range(passes[p].log) /\ "complete" \in Range(passes'[p].log))
                 => \A c \in TasksOf(p) :
                        LET task == passes[p].tasks[c]
                        IN  /\ task.pc = "done"
                            /\ task = passes'[p].tasks[c]
                            /\ Cardinality(CallsOf(task, "increment")) = 1
                            /\ passes[p].tokensByChain[c].n > 0
                                   => Cardinality(CallsOf(task, "complete")) = 1]_vars

C17_Witness ==
    \E p \in DOMAIN passes :
        /\ "complete" \in Range(passes[p].log)
        /\ Cardinality(TasksOf(p)) = 2
        /\ \A c \in TasksOf(p) :
               /\ passes[p].tokensByChain[c].n > 0
               /\ CallsOf(passes[p].tasks[c], "complete") # {}
        /\ \E c \in TasksOf(p) : Len(UpdatesOf(passes[p].tasks[c])) = 1
        /\ progress[processingKey].status = "completed"

\* C19: storePrices has been called for a batch only if its fetchPrices call
\* returned, and then with a non-empty list; a batch whose fetch threw or
\* returned no prices has no store call; and once a batch has settled nothing
\* about it changes, so it has at most one store call.
C19_StoreOncePerFetchedBatch ==
    /\ [](\A p \in DOMAIN passes : \A c \in TasksOf(p) :
             \A b \in DOMAIN passes[p].tasks[c].batches :
                 LET batch == passes[p].tasks[c].batches[b]
                 IN  /\ batch.status \in StoreCalled
                            => batch.stored # {} /\ batch.fetched # EmptyMap
                     /\ batch.status \notin StoreCalled => batch.stored = {}
                     /\ batch.status \in {"pending", "fetching", "fetchFailed", "skipped"}
                            => batch.fetched = EmptyMap)
    /\ [][\A p \in DOMAIN passes : \A c \in TasksOf(p) :
             \A b \in DOMAIN passes[p].tasks[c].batches :
                 LET batch == passes[p].tasks[c].batches[b]
                     after == passes'[p].tasks[c].batches[b]
                 IN  after # batch
                        => \/ /\ batch.status = "pending"
                              /\ after = [batch EXCEPT !.status = "fetching"]
                           \/ /\ batch.status = "fetching"
                              /\ after.status \in Settled]_vars

C19_Witness ==
    \E p \in DOMAIN passes : \E c \in TasksOf(p) :
        LET batches == passes[p].tasks[c].batches
        IN  /\ Len(batches) >= 3
            /\ batches[1].status = "fetchFailed"
            /\ batches[2].status = "skipped"
            /\ batches[3].status = "stored"
            /\ passes[p].pc = "done"

-----------------------------------------------------------------------------
(* Overlapping passes, checked under SpecOverlap *)

\* the keys some pass has started and not completed
OpenKeys ==
    {processingKey : p \in {q \in DOMAIN passes :
                               /\ "start" \in Range(passes[q].log)
                               /\ "complete" \notin Range(passes[q].log)}}
      \cup UNION {{chainKey(c) : c \in {x \in TasksOf(p) :
                                          /\ CallsOf(passes[p].tasks[x], "start") # {}
                                          /\ CallsOf(passes[p].tasks[x], "complete") = {}}}
                   : p \in DOMAIN passes}

\* the keys pass p calls start on in the step that resumes it from discovery
StartedBy(p) ==
    IF passes[p].pc = "discovering" /\ passes'[p].pc = "processing"
    THEN {processingKey}
           \cup {chainKey(c) : c \in {x \in DOMAIN passes'[p].tasks :
                                         CallsOf(passes'[p].tasks[x], "start") # {}}}
    ELSE {}

\* C18: whatever the schedule of ticks, no pass calls start on a key that a
\* pass has started and not yet completed.
C18_NoStartOnOpenKey ==
    [][Len(passes') = Len(passes)
          => \A p \in DOMAIN passes : StartedBy(p) \cap OpenKeys = {}]_vars

-----------------------------------------------------------------------------
(* The phase rule of rediscovery, checked under SpecClock *)

\* every callback so far ran exactly intervalMs after the one before
ClockExact == Drifts = 0

WindowOf(t) == t \div 3600000

StartWindow == WindowOf(tickLog[1].at)

LastWindow == WindowOf(tickLog[Len(tickLog)].at)

\* the callbacks of window k that began a pass with forced rediscovery
ForcedIn(k) ==
    {j \in DOMAIN tickLog :
        tickLog[j].kind = "tick" /\ WindowOf(tickLog[j].at) = k /\ tickLog[j].forced}

TicksIn(k) ==
    {j \in DOMAIN tickLog : tickLog[j].kind = "tick" /\ WindowOf(tickLog[j].at) = k}

\* C20 as stated: with callbacks exactly intervalMs apart, intervalMs at most
\* 3600000, every window the callbacks have run through, the one in which the
\* timer was created included, has exactly one callback that forces rediscovery.
C20_OneForcedTickPerWindow ==
    ClockExact =>
        \A k \in StartWindow..(LastWindow - 1) : Cardinality(ForcedIn(k)) = 1

\* C20 amended: with callbacks exactly intervalMs apart, intervalMs at most
\* 3600000, every window that began after the timer was created and that a
\* callback has reached has exactly one callback that forces rediscovery, its
\* first; the window in which the timer was created has none.
C20_OneForcedTickPerLaterWindow ==
    ClockExact =>
        /\ \A k \in (StartWindow + 1)..LastWindow :
               /\ Cardinality(ForcedIn(k)) = 1
               /\ \A j \in ForcedIn(k) : \A i \in TicksIn(k) : j <= i
        /\ ForcedIn(StartWindow) = {}

\* a run whose callbacks were exact through a whole later window, which has one
\* forced callback, and then drifted: one later window has two forced callbacks
\* and one has none
C20_Witness ==
    /\ timers # <<>>
    /\ timers[1].intervalMs <= 3600000
    /\ \E k1, k2, k3 \in (StartWindow + 1)..(LastWindow - 1) :
           /\ Cardinality(ForcedIn(k1)) = 1
           /\ \A j \in DOMAIN tickLog :
                  WindowOf(tickLog[j].at) <= k1 => tickLog[j].jitter = 0
           /\ Cardinality(ForcedIn(k2)) = 2
           /\ Cardinality(ForcedIn(k3)) = 0

====
